---- MODULE Spec2Model ----
(***************************************************************************)
(* A model of dkcli (src/src/main.rs): the D-Bus call adapter Dbus::run /  *)
(* Dbus::try_from, the squashfs asset selection at the head of set_config, *)
(* the configuration push, the get_progress polling loop, the ctrlc        *)
(* handler, and main's sequencing of inquire, set_config, start_install    *)
(* and get_progress.                                                       *)
(*                                                                         *)
(* Strings that the code only compares for equality are TLA+ strings.      *)
(* Strings that the code orders (Squashfs.data) are sequences of character *)
(* codes, so that String's Ord (lexicographic) is computed, not assumed.   *)
(* JSON values are records with a "tag" field.                             *)
(***************************************************************************)
EXTENDS Integers, Sequences, FiniteSets, TLC

VARIABLES
    \* ---- the session (main thread, ctrlc thread, process) ----
    pc,          \* position of the main thread in main / inquire / set_config / get_progress
    host,        \* the machine the binary runs on: [arch, endian]
    loc,         \* locals of inquire that later steps read
    config,      \* the InstallConfig inquire returned
    sqfs,        \* set_config's selected Squashfs (Option)
    idx,         \* index of the next field set_config pushes
    mainCall,    \* the daemon method the main thread awaits an answer of, or "none"
    calls,       \* history: the daemon calls the main thread issued, in order
    pushed,      \* history: [field, value] of every set_config request issued
    nOk,         \* history: how many set_config calls returned Ok
    startOk,     \* history: start_install returned Ok
    observed,    \* history: the ProgressStatus values get_progress decoded, in order
    updates,     \* history: the (step, progress) pairs written to the two bars
    main_pb,     \* position of the coarse bar
    second_pb,   \* position of the fine bar
    slept,       \* history: how many times the loop slept
    lastReply,   \* history: what the proxy returned to the main thread's last finished call
    history,     \* "whole": the histories keep the whole run; "latest": only the last entry
    mainResult,  \* what main returned: "none", "Ok", "Err", "panic"
    failure,     \* the error main returned
    hpc,         \* the ctrlc thread: "idle", "signalled", "calling", "exited", "panicked"
    cancels,     \* history: cancel_install requests issued
    proc,        \* "running" or "exited"
    exitCode,    \* the process's exit code once exited
    \* ---- the asset selection on its own ----
    asPc, asList, asHost, asOut,
    \* ---- the adapter on its own ----
    adPc, adMethod, adReply, adWire, adOut

sessionVars == <<pc, host, loc, config, sqfs, idx, mainCall, calls, pushed, nOk, startOk,
                 observed, updates, main_pb, second_pb, slept, lastReply, history,
                 mainResult, failure, hpc, cancels, proc, exitCode>>
assetVars == <<asPc, asList, asHost, asOut>>
adapterVars == <<adPc, adMethod, adReply, adWire, adOut>>
vars == <<sessionVars, assetVars, adapterVars>>

----------------------------------------------------------------------------
\* Bounds of the model.

\* longest squashfs list the asset selection is tried on
MaxAssets == 3
\* most get_progress requests one session issues
MaxPolls == 5

----------------------------------------------------------------------------
\* Option<T>

NoneStr == [some |-> FALSE, v |-> ""]
SomeStr(s) == [some |-> TRUE, v |-> s]
NoneTag == [some |-> FALSE, v |-> <<>>]
SomeTag(t) == [some |-> TRUE, v |-> t]

----------------------------------------------------------------------------
\* String ordering: Ord for String compares bytes lexicographically, and
\* Ord for Option puts None below every Some.  Orderings are -1, 0, 1.

RECURSIVE str_cmp(_, _)
str_cmp(a, b) ==
    IF a = <<>> /\ b = <<>> THEN 0
    ELSE IF a = <<>> THEN -1
    ELSE IF b = <<>> THEN 1
    ELSE IF Head(a) < Head(b) THEN -1
    ELSE IF Head(a) > Head(b) THEN 1
    ELSE str_cmp(Tail(a), Tail(b))

option_cmp(a, b) ==
    IF ~a.some /\ ~b.some THEN 0
    ELSE IF ~a.some THEN -1
    ELSE IF ~b.some THEN 1
    ELSE str_cmp(a.v, b.v)

----------------------------------------------------------------------------
\* get_arch_name: the host's architecture name in AOSC OS terms.

ArchTable(arch) ==
    CASE arch = "x86_64" -> SomeStr("amd64")
      [] arch = "x86" -> SomeStr("i486")
      [] arch = "powerpc" -> SomeStr("powerpc")
      [] arch = "aarch64" -> SomeStr("arm64")
      [] arch = "mips64" -> SomeStr("loongson3")
      [] arch = "riscv64" -> SomeStr("riscv64")
      [] arch = "loongarch64" -> SomeStr("loongarch64")
      [] OTHER -> NoneStr

Ppc64ArchName(endian) ==
    IF endian = "failed" THEN NoneStr
    ELSE IF endian \in {"little", "ppc_little"} THEN SomeStr("ppc64el")
    ELSE IF endian = "big" THEN SomeStr("ppc64")
    ELSE NoneStr

get_arch_name(h) ==
    IF h.arch = "powerpc64" THEN Ppc64ArchName(h.endian) ELSE ArchTable(h.arch)

----------------------------------------------------------------------------
\* The head of set_config: filter the variant's squashfs by architecture,
\* sort by data descending, take the first.

ArchMatches(h, x) ==
    LET arch == get_arch_name(h) IN IF arch.some THEN arch.v = x.arch ELSE FALSE

RECURSIVE FilterArch(_, _)
FilterArch(h, list) ==
    IF list = <<>> THEN <<>>
    ELSE IF ArchMatches(h, Head(list))
         THEN <<Head(list)>> \o FilterArch(h, Tail(list))
         ELSE FilterArch(h, Tail(list))

\* the closure given to sort_unstable_by
ReverseDataOrder(a, b) == option_cmp(a.data, b.data)
SortCompare(a, b) == option_cmp(b.data, a.data)

Orderings(n) == {f \in [1..n -> 1..n] : \A i, j \in 1..n : f[i] = f[j] => i = j}

\* sort_unstable_by leaves the order of equal elements open: every ordering
\* of the list that the comparison accepts is a possible result.
SortUnstable(list) ==
    {[i \in 1..Len(list) |-> list[f[i]]] : f \in
        {g \in Orderings(Len(list)) :
            \A i, j \in 1..Len(list) : i < j => SortCompare(list[g[i]], list[g[j]]) <= 0}}

NoAsset == [some |-> FALSE,
            v |-> [arch |-> "", data |-> NoneTag, path |-> "", sha256sum |-> ""]]
SomeAsset(x) == [some |-> TRUE, v |-> x]

\* Iterator::first followed by .context(..)?: None leaves set_config
FirstOrBlank(list) == IF list = <<>> THEN SomeAsset(NoAsset.v) ELSE SomeAsset(list[1])
First(list) == IF list = <<>> THEN NoAsset ELSE SomeAsset(list[1])

\* every Squashfs the three lines can bind to sqfs
SelectSquashfs(h, list) == {First(s) : s \in SortUnstable(FilterArch(h, list))}

----------------------------------------------------------------------------
\* The asset selection on its own, over every short squashfs list.

T0101 == <<2, 0, 2, 4, 0, 1, 0, 1>>
T0202 == <<2, 0, 2, 4, 0, 2, 0, 2>>
T0303 == <<2, 0, 2, 4, 0, 3, 0, 3>>
Tags == {NoneTag, SomeTag(<<9>>), SomeTag(<<1, 0>>), SomeTag(T0101), SomeTag(T0202),
         SomeTag(T0303)}

Asset(arch, data) ==
    [arch |-> arch, data |-> data, path |-> "os.squashfs", sha256sum |-> "sum"]
Assets == {Asset(a, d) : a \in {"amd64", "arm64"}, d \in Tags}
              \cup {Asset("ppc64el", SomeTag(T0101))}

Hosts == {[arch |-> a, endian |-> "other"] : a \in {"x86_64", "aarch64", "riscv64", "s390x"}}
             \cup {[arch |-> "powerpc64", endian |-> e] : e \in {"little", "big", "failed"}}

AssetLists == UNION {[1..n -> Assets] : n \in 0..MaxAssets}

AssetInit ==
    /\ asPc = "input"
    /\ asList \in AssetLists
    /\ asHost \in Hosts
    /\ asOut = NoAsset

SelectAsset ==
    /\ asPc = "input"
    /\ asOut' \in SelectSquashfs(asHost, asList)
    /\ asPc' = "selected"
    /\ UNCHANGED <<asList, asHost>>

AssetIdle ==
    /\ asPc = "idle" /\ asList = <<>> /\ asOut = NoAsset
    /\ asHost = [arch |-> "x86_64", endian |-> "other"]

----------------------------------------------------------------------------
\* JSON values (serde_json::Value) the daemon sends.

JNull == [tag |-> "null"]
JBool(b) == [tag |-> "bool", b |-> b]
JText(s) == [tag |-> "text", s |-> s]
JDevices(items) == [tag |-> "devices", items |-> items]
JParts(items) == [tag |-> "partitions", items |-> items]
\* {"status": ..., ...}: the object a ProgressStatus is decoded from
JStatus(status, step, progress, payload) ==
    [tag |-> "status", status |-> status, step |-> step, progress |-> progress,
     payload |-> payload]

----------------------------------------------------------------------------
\* anyhow::Result: Ok carries the Dbus envelope, Err carries [kind, payload].

NoError == [kind |-> "none", payload |-> JNull]
Error(kind, payload) == [kind |-> kind, payload |-> payload]
Ok(result, data) == [ok |-> TRUE, result |-> result, data |-> data, err |-> NoError]
Err(e) == [ok |-> FALSE, result |-> "none", data |-> JNull, err |-> e]

\* What a proxy call yields: a zbus error, or the daemon's string, which is
\* either the JSON of a Dbus {result, data} or not.
Transport == [kind |-> "transport", result |-> "none", data |-> JNull]
Malformed == [kind |-> "malformed", result |-> "none", data |-> JNull]
Envelope(result, data) == [kind |-> "envelope", result |-> result, data |-> data]

Replies(D) == {Transport, Malformed} \cup {Envelope(r, d) : r \in {"Ok", "Error"}, d \in D}

\* impl TryFrom<String> for Dbus
AcceptAnyResult(value) ==
    IF value.kind # "envelope" THEN Err(Error("serde_json::Error", JNull))
    ELSE Ok(value.result, value.data)
try_from(value) ==
    IF value.kind # "envelope" THEN Err(Error("serde_json::Error", JNull))
    ELSE IF value.result = "Ok" THEN Ok(value.result, value.data)
    ELSE Err(Error("Failed to execute query", value.data))

\* enum DbusMethod, and the proxy method Dbus::run calls for each
DbusMethods == {"SetConfig", "AutoPartition", "GetProgress", "StartInstall",
                "GetAutoPartitionProgress", "FindEspPartition", "ListPartitions",
                "ListDevice", "GetRecommendSwapSize", "GetMemory", "CancelInstall",
                "ResetConfig", "DiskIsRightCombo", "Ping", "GetAllEspPartitions",
                "ResetProgressStatus", "SyncDisk", "SyncAndReboot", "IsLvmDevice", "IsEFI"}

ProxyMethod(method) ==
    CASE method = "SetConfig" -> "set_config"
      [] method = "AutoPartition" -> "auto_partition"
      [] method = "GetProgress" -> "get_progress"
      [] method = "StartInstall" -> "start_install"
      [] method = "GetAutoPartitionProgress" -> "get_auto_partition_progress"
      [] method = "FindEspPartition" -> "find_esp_partition"
      [] method = "ListPartitions" -> "get_list_partitions"
      [] method = "ListDevice" -> "get_list_devices"
      [] method = "GetRecommendSwapSize" -> "get_recommend_swap_size"
      [] method = "GetMemory" -> "get_memory"
      [] method = "CancelInstall" -> "cancel_install"
      [] method = "ResetConfig" -> "reset_config"
      [] method = "DiskIsRightCombo" -> "disk_is_right_combo"
      [] method = "Ping" -> "ping"
      [] method = "GetAllEspPartitions" -> "get_all_esp_partitions"
      [] method = "ResetProgressStatus" -> "reset_progress_status"
      [] method = "SyncDisk" -> "sync_disk"
      [] method = "SyncAndReboot" -> "sync_and_reboot"
      [] method = "IsLvmDevice" -> "is_lvm_device"
      [] method = "IsEFI" -> "is_efi"

\* Dbus::run, given what the proxy call yielded
run(method, reply) ==
    IF reply.kind = "transport" THEN Err(Error("zbus::Error", JNull)) ELSE try_from(reply)

----------------------------------------------------------------------------
\* The adapter on its own, over every method and every kind of reply.

AdapterData == {JNull, JBool(TRUE), JText("busy"), JParts(<<>>),
                JStatus("Finish", 0, 0, JNull)}

AdapterInit ==
    /\ adPc = "ready"
    /\ adMethod \in DbusMethods
    /\ adReply = Transport
    /\ adWire = "none"
    /\ adOut = Err(NoError)

AdapterRun ==
    /\ adPc = "ready"
    /\ \E reply \in Replies(AdapterData) :
        /\ adReply' = reply
        /\ adWire' = ProxyMethod(adMethod)
        /\ adOut' = run(adMethod, reply)
    /\ adPc' = "returned"
    /\ UNCHANGED adMethod

AdapterIdle ==
    /\ adPc = "idle" /\ adMethod = "Ping" /\ adReply = Transport
    /\ adWire = "none" /\ adOut = Err(NoError)

----------------------------------------------------------------------------
\* The session: what the daemon, the manifest and the user can supply.

\* DkPartition (only path decides anything here)
Part(p) == [path |-> SomeStr(p)]
PartNoPath == [path |-> NoneStr]
NonePart == [some |-> FALSE, v |-> PartNoPath]
SomePart(x) == [some |-> TRUE, v |-> x]

Sda1 == Part("/dev/sda1")
Sda2 == Part("/dev/sda2")
Sdb1 == Part("/dev/sdb1")

Squashfs(arch, data, path, sum) ==
    [arch |-> arch, data |-> data, path |-> path, sha256sum |-> sum]

Variant(name, dir, retro, list) ==
    [name |-> name, dir_name |-> dir, retro |-> retro, squashfs |-> list]
NoVariant == Variant("", NoneStr, FALSE, <<>>)

\* recipe.json as get_recipe reads it
Recipe ==
    [variants |-> <<
        Variant("Retro Base", SomeStr("retro-base"), TRUE,
                <<Squashfs("amd64", SomeTag(T0101), "retro.squashfs", "sum-retro")>>),
        Variant("BuildKit", SomeStr("buildkit"), FALSE,
                <<Squashfs("amd64", SomeTag(T0101), "buildkit.squashfs", "sum-bk")>>),
        Variant("Base", SomeStr("base"), FALSE,
                <<Squashfs("amd64", SomeTag(T0101), "base-0101.squashfs", "sum-0101"),
                  Squashfs("arm64", SomeTag(T0303), "base-arm.squashfs", "sum-arm"),
                  Squashfs("amd64", SomeTag(T0202), "base-0202.squashfs", "sum-0202")>>),
        Variant("Desktop", NoneStr, FALSE,
                <<Squashfs("amd64", SomeTag(T0101), "desktop.squashfs", "sum-desktop")>>),
        Variant("Server", SomeStr("server"), FALSE,
                <<Squashfs("arm64", SomeTag(T0303), "server.squashfs", "sum-server")>>)
    >>]

\* str::to_lowercase on the variant names of the recipe
ToLowercase(name) ==
    CASE name = "Retro Base" -> "retro base"
      [] name = "BuildKit" -> "buildkit"
      [] name = "Base" -> "base"
      [] name = "Desktop" -> "desktop"
      [] name = "Server" -> "server"
      [] OTHER -> name

SessionHosts == {[arch |-> "x86_64", endian |-> "other"]}

DeviceData == {JDevices(<<>>), JDevices(<<"/dev/sda">>), JNull}
PartData == {JParts(<<>>), JParts(<<PartNoPath, Sda1>>), JParts(<<Sda1, Sda2>>), JNull}
BoolData == {JBool(TRUE), JBool(FALSE), JNull}
EspData == {JParts(<<>>), JParts(<<Sda2>>), JParts(<<Sda2, Sdb1>>), JNull}
SetData == {JNull, JText("rejected")}
ProgressData == {JStatus("Pending", 0, 0, JNull),
                 JStatus("Working", 1, 50, JNull),
                 JStatus("Working", 2, 80, JNull),
                 JStatus("Working", 256, 0, JNull),
                 JStatus("Error", 0, 0, JText("disk full")),
                 JStatus("Error", 0, 0, JText("no space")),
                 JStatus("Finish", 0, 0, JNull),
                 JNull}

\* the daemon's possible answers to each method the session calls
DataOf(method) ==
    CASE method = "ListDevice" -> DeviceData
      [] method = "ListPartitions" -> PartData
      [] method = "IsEFI" -> BoolData
      [] method = "IsLvmDevice" -> BoolData
      [] method = "GetAllEspPartitions" -> EspData
      [] method = "SetConfig" -> SetData
      [] method = "StartInstall" -> SetData
      [] method = "GetProgress" -> ProgressData
      [] method = "CancelInstall" -> SetData

----------------------------------------------------------------------------
\* Decoding of the data of an Ok envelope.

\* Value::as_bool
AsBoolFalse(data) == [some |-> data.tag = "bool", v |-> FALSE]
as_bool(data) == IF data.tag = "bool" THEN [some |-> TRUE, v |-> data.b]
                 ELSE [some |-> FALSE, v |-> FALSE]

\* serde_json::from_value::<Vec<Device>> / <Vec<DkPartition>>
ListOk(data, tag) == data.tag = tag

U8Max == 255

\* serde_json::from_value::<ProgressStatus>: Ok with the variant, or Err
ProgressStatus(status, step, progress, payload) ==
    [status |-> status, step |-> step, progress |-> progress, payload |-> payload]
ProgressDecodes(data) ==
    /\ data.tag = "status"
    /\ data.status \in {"Pending", "Working", "Error", "Finish"}
    /\ data.status = "Working" => (data.step \in 0..U8Max /\ data.progress \in 0..U8Max)
ProgressOf(data) ==
    CASE data.status = "Working" -> ProgressStatus("Working", data.step, data.progress, JNull)
      [] data.status = "Error" -> ProgressStatus("Error", 0, 0, data.payload)
      [] OTHER -> ProgressStatus(data.status, 0, 0, JNull)

----------------------------------------------------------------------------
\* The session: state after ctrlc::set_handler returned in main.

\* locals of inquire
NoLocals ==
    [offline |-> FALSE, recipe |-> [variants |-> <<>>], variant |-> NoVariant,
     devices |-> <<>>, device |-> "", partitions |-> <<>>, is_efi |-> FALSE,
     partition |-> PartNoPath, efi_parts |-> <<>>, efi |-> NonePart]

InstallConfig(l, rtc) ==
    [offline_install |-> l.offline, variant |-> l.variant, fullname |-> "Ann Lee",
     user |-> "annlee", password |-> "secret", hostname |-> "aosc",
     timezone |-> "Asia/Tokyo", rtc_as_localtime |-> rtc,
     target_part |-> l.partition, efi_disk |-> l.efi, locale |-> "en_US.UTF-8"]
NoConfig == InstallConfig(NoLocals, FALSE)

\* no call of the main thread has finished yet
NoReply == [kind |-> "none", result |-> "none", data |-> JNull]

ExitOk == 0
ExitErr == 1
ExitPanic == 101
HandlerExit == 1

SessionStart ==
    /\ pc = "ask_offline"
    /\ loc = NoLocals
    /\ config = NoConfig
    /\ sqfs = NoAsset
    /\ idx = 0
    /\ mainCall = "none"
    /\ calls = <<>>
    /\ pushed = <<>>
    /\ nOk = 0
    /\ startOk = FALSE
    /\ observed = <<>>
    /\ updates = <<>>
    /\ main_pb = 0
    /\ second_pb = 0
    /\ slept = 0
    /\ lastReply = NoReply
    /\ history = "whole"
    /\ mainResult = "none"
    /\ failure = NoError
    /\ hpc = "idle"
    /\ cancels = 0
    /\ proc = "running"
    /\ exitCode = 0

SessionInit == host \in SessionHosts /\ SessionStart
SessionIdle == host = [arch |-> "x86_64", endian |-> "other"] /\ SessionStart

\* what no step of a session changes
outside == <<history, assetVars, adapterVars>>
inqVars == <<loc, config>>
cfgVars == <<sqfs, idx, pushed, nOk>>
monVars == <<observed, updates, main_pb, second_pb, slept>>
ctrlcVars == <<hpc, cancels>>
procVars == <<proc, exitCode>>

Running == proc = "running"
\* the main thread is at p and not inside a daemon call
MainAt(p) == Running /\ mainResult = "none" /\ mainCall = "none" /\ pc = p

Goto(p) == pc' = p /\ UNCHANGED <<mainResult, failure>>
\* main returns Err(e): every `?` between the failing call and main
Fail(e) == pc' = "returned" /\ mainResult' = "Err" /\ failure' = e
\* the main thread panics
Panic(what) == pc' = "returned" /\ mainResult' = "panic" /\ failure' = Error("panic", JText(what))

\* the `?` operator: does this Result leave the function
IgnoresErr(res) == FALSE
OnlyTransportPropagates(res) == ~res.ok /\ res.err.kind = "zbus::Error"
Propagates(res) == ~res.ok

Count(seq, x) == Cardinality({i \in 1..Len(seq) : seq[i] = x})

\* a history gains an entry: kept whole, or cut to the latest entry where the
\* run has no end (the polling loop has no bound of its own)
Record(seq, x) == IF history = "whole" THEN Append(seq, x) ELSE <<x>>
Tick(n) == IF history = "whole" THEN n + 1 ELSE 1

RECURSIVE FilterMapPath(_)
\* filter_map(|x| x.path.as_ref().map(..to_string_lossy..)): the paths listed
FilterMapPath(parts) ==
    IF parts = <<>> THEN <<>>
    ELSE IF Head(parts).path.some
         THEN <<Head(parts).path.v>> \o FilterMapPath(Tail(parts))
         ELSE FilterMapPath(Tail(parts))

\* iter().find(|x| x.path == Some(path)): the first partition with that path
FindPart(parts, path) ==
    LET hits == {i \in 1..Len(parts) : parts[i].path.some /\ parts[i].path.v = path}
    IN IF hits = {} THEN NonePart
       ELSE SomePart(parts[CHOOSE i \in hits : \A j \in hits : i <= j])

\* the names the variant prompt offers
RECURSIVE VariantNames(_)
VariantNames(list) ==
    IF list = <<>> THEN <<>>
    ELSE IF ~Head(list).retro /\ ToLowercase(Head(list).name) # "buildkit"
         THEN <<Head(list).name>> \o VariantNames(Tail(list))
         ELSE VariantNames(Tail(list))

FindVariant(list, name) ==
    list[CHOOSE i \in 1..Len(list) :
            /\ list[i].name = name
            /\ \A j \in 1..Len(list) : list[j].name = name => i <= j]

Range(seq) == {seq[i] : i \in 1..Len(seq)}

----------------------------------------------------------------------------
\* inquire

AskOffline ==
    /\ MainAt("ask_offline")
    /\ \/ \E b \in BOOLEAN : loc' = [loc EXCEPT !.offline = b] /\ Goto("get_recipe")
       \/ Fail(Error("InquireError", JNull)) /\ UNCHANGED loc
    /\ UNCHANGED <<host, config, cfgVars, mainCall, calls, startOk, monVars, ctrlcVars,
                   procVars, lastReply, outside>>

GetRecipe ==
    /\ MainAt("get_recipe")
    /\ \/ loc' = [loc EXCEPT !.recipe = Recipe] /\ Goto("select_variant")
       \/ Fail(Error("get_recipe", JNull)) /\ UNCHANGED loc
    /\ UNCHANGED <<host, config, cfgVars, mainCall, calls, startOk, monVars, ctrlcVars,
                   procVars, lastReply, outside>>

SelectVariant ==
    /\ MainAt("select_variant")
    /\ \/ \E name \in Range(VariantNames(loc.recipe.variants)) :
            /\ loc' = [loc EXCEPT !.variant = FindVariant(loc.recipe.variants, name)]
            /\ Goto("get_devices")
       \/ Fail(Error("InquireError", JNull)) /\ UNCHANGED loc
    /\ UNCHANGED <<host, config, cfgVars, mainCall, calls, startOk, monVars, ctrlcVars,
                   procVars, lastReply, outside>>

\* the places of main, inquire and get_progress that call Dbus::run with a
\* method other than SetConfig
CallSite(p) ==
    CASE p = "get_devices" -> "ListDevice"
      [] p = "get_partitions" -> "ListPartitions"
      [] p = "is_efi" -> "IsEFI"
      [] p = "is_lvm_device" -> "IsLvmDevice"
      [] p = "get_all_esp" -> "GetAllEspPartitions"
      [] p = "start_install" -> "StartInstall"
      [] p = "get_progress" -> "GetProgress"
      [] OTHER -> "none"

\* the main thread sends the request of the call it stands at
IssueCall ==
    /\ Running /\ mainResult = "none" /\ mainCall = "none"
    /\ CallSite(pc) # "none"
    /\ (pc = "get_progress" /\ history = "whole") => Count(calls, "get_progress") < MaxPolls
    /\ mainCall' = CallSite(pc)
    /\ calls' = Record(calls, ProxyMethod(CallSite(pc)))
    /\ UNCHANGED <<pc, mainResult, failure, host, inqVars, cfgVars, startOk, monVars,
                   ctrlcVars, procVars, lastReply, outside>>

\* the main thread is blocked in Dbus::run(method) and the proxy call ends
Awaiting(method) == Running /\ mainResult = "none" /\ mainCall = method

DevicesReturn ==
    /\ Awaiting("ListDevice")
    /\ \E reply \in Replies(DataOf("ListDevice")) :
        /\ lastReply' = reply
        /\ LET res == run("ListDevice", reply) IN
           IF Propagates(res) THEN Fail(res.err) /\ UNCHANGED loc
           ELSE IF ~ListOk(res.data, "devices")
           THEN Fail(Error("serde_json::Error", res.data)) /\ UNCHANGED loc
           ELSE loc' = [loc EXCEPT !.devices = res.data.items] /\ Goto("select_device")
    /\ mainCall' = "none"
    /\ UNCHANGED <<host, config, cfgVars, calls, startOk, monVars, ctrlcVars, procVars,
                   outside>>

SelectDevice ==
    /\ MainAt("select_device")
    /\ \/ \E d \in Range(loc.devices) : loc' = [loc EXCEPT !.device = d] /\ Goto("get_partitions")
       \/ Fail(Error("InquireError", JNull)) /\ UNCHANGED loc
    /\ UNCHANGED <<host, config, cfgVars, mainCall, calls, startOk, monVars, ctrlcVars,
                   procVars, lastReply, outside>>

PartitionsReturn ==
    /\ Awaiting("ListPartitions")
    /\ \E reply \in Replies(DataOf("ListPartitions")) :
        /\ lastReply' = reply
        /\ LET res == run("ListPartitions", reply) IN
           IF Propagates(res) THEN Fail(res.err) /\ UNCHANGED loc
           ELSE IF ~ListOk(res.data, "partitions")
           THEN Fail(Error("serde_json::Error", res.data)) /\ UNCHANGED loc
           ELSE loc' = [loc EXCEPT !.partitions = res.data.items] /\ Goto("is_efi")
    /\ mainCall' = "none"
    /\ UNCHANGED <<host, config, cfgVars, calls, startOk, monVars, ctrlcVars, procVars,
                   outside>>

IsEfiReturn ==
    /\ Awaiting("IsEFI")
    /\ \E reply \in Replies(DataOf("IsEFI")) :
        /\ lastReply' = reply
        /\ LET res == run("IsEFI", reply) IN
           IF Propagates(res) THEN Fail(res.err) /\ UNCHANGED loc
           ELSE IF ~as_bool(res.data).some
           THEN Fail(Error("Could not get is efi", JNull)) /\ UNCHANGED loc
           ELSE loc' = [loc EXCEPT !.is_efi = as_bool(res.data).v] /\ Goto("is_lvm_device")
    /\ mainCall' = "none"
    /\ UNCHANGED <<host, config, cfgVars, calls, startOk, monVars, ctrlcVars, procVars,
                   outside>>

IsLvmReturn ==
    /\ Awaiting("IsLvmDevice")
    /\ \E reply \in Replies(DataOf("IsLvmDevice")) :
        /\ lastReply' = reply
        /\ LET res == run("IsLvmDevice", reply) IN
           IF Propagates(res) THEN Fail(res.err)
           ELSE IF ~as_bool(res.data).some
           THEN Fail(Error("Could not get is lvm device", JNull))
           ELSE IF as_bool(res.data).v
           THEN Fail(Error("Installer unsupport LVM Device.", JNull))
           ELSE Goto("select_partition")
    /\ mainCall' = "none"
    /\ UNCHANGED <<host, inqVars, cfgVars, calls, startOk, monVars, ctrlcVars, procVars,
                   outside>>

SelectPartition ==
    /\ MainAt("select_partition")
    /\ \/ \E path \in Range(FilterMapPath(loc.partitions)) :
            /\ loc' = [loc EXCEPT !.partition = FindPart(loc.partitions, path).v]
            /\ Goto(IF loc.is_efi THEN "get_all_esp" ELSE "ask_user")
       \/ Fail(Error("InquireError", JNull)) /\ UNCHANGED loc
    /\ UNCHANGED <<host, config, cfgVars, mainCall, calls, startOk, monVars, ctrlcVars,
                   procVars, lastReply, outside>>

\* efi_parts.is_empty(), line 368
NeverEmpty(list) == FALSE
is_empty(list) == list = <<>>

EspReturn ==
    /\ Awaiting("GetAllEspPartitions")
    /\ \E reply \in Replies(DataOf("GetAllEspPartitions")) :
        /\ lastReply' = reply
        /\ LET res == run("GetAllEspPartitions", reply) IN
           IF Propagates(res) THEN Fail(res.err) /\ UNCHANGED loc
           ELSE IF ~ListOk(res.data, "partitions")
           THEN Fail(Error("serde_json::Error", res.data)) /\ UNCHANGED loc
           ELSE IF is_empty(res.data.items)
           THEN Fail(Error("No ESP partition found on device", JNull)) /\ UNCHANGED loc
           ELSE loc' = [loc EXCEPT !.efi_parts = res.data.items] /\ Goto("select_esp")
    /\ mainCall' = "none"
    /\ UNCHANGED <<host, config, cfgVars, calls, startOk, monVars, ctrlcVars, procVars,
                   outside>>

SelectEsp ==
    /\ MainAt("select_esp")
    /\ \/ \E path \in Range(FilterMapPath(loc.efi_parts)) :
            LET found == FindPart(loc.partitions, path) IN
            IF found.some
            THEN loc' = [loc EXCEPT !.efi = found] /\ Goto("ask_user")
            ELSE Panic("unwrap on None") /\ UNCHANGED loc
       \/ Fail(Error("InquireError", JNull)) /\ UNCHANGED loc
    /\ UNCHANGED <<host, config, cfgVars, mainCall, calls, startOk, monVars, ctrlcVars,
                   procVars, lastReply, outside>>

\* the prompts for name, username, password, timezone, locale, hostname and
\* clock mode, and the InstallConfig inquire returns
AskUser ==
    /\ MainAt("ask_user")
    /\ \/ \E rtc \in BOOLEAN :
            /\ config' = InstallConfig(loc, rtc)
            /\ loc' = NoLocals
            /\ Goto("set_config")
       \/ Fail(Error("InquireError", JNull)) /\ UNCHANGED inqVars
    /\ UNCHANGED <<host, cfgVars, mainCall, calls, startOk, monVars, ctrlcVars, procVars,
                   lastReply, outside>>

----------------------------------------------------------------------------
\* set_config

LocaleFirst == <<"locale", "download", "user", "timezone", "hostname", "rtc_as_localtime",
                 "swapfile", "target_partition">>
FieldOrder == <<"download", "locale", "user", "timezone", "hostname", "rtc_as_localtime",
                "swapfile", "target_partition">>

\* the fields set_config pushes for this configuration, in program order
Fields(c) == IF c.efi_disk.some THEN Append(FieldOrder, "efi_partition") ELSE FieldOrder

\* json!({"Http": {"url": format!("https://releases.aosc.io/{}", path), "hash": sum}})
HashOfPath(s) ==
    [tag |-> "Http", url |-> <<"https://releases.aosc.io/", s.path>>, hash |-> s.path]
HttpValue(s) ==
    [tag |-> "Http", url |-> <<"https://releases.aosc.io/", s.path>>, hash |-> s.sha256sum]
\* json!({"Dir": format!("/run/livekit/sysroots/{}", dir_name)})
DirValue(dir) == [tag |-> "Dir", dir |-> <<"/run/livekit/sysroots/", dir>>]

\* bool::to_string
BoolToString(b) == IF b THEN "true" ELSE "false"

\* the value argument of each SetConfig request
FieldValue(c, s, field) ==
    CASE field = "download" ->
            IF ~c.offline_install THEN HttpValue(s) ELSE DirValue(c.variant.dir_name.v)
      [] field = "locale" -> JText(c.locale)
      [] field = "user" -> [tag |-> "user", username |-> c.user, password |-> c.password,
                            full_name |-> c.fullname]
      [] field = "timezone" -> JText(c.timezone)
      [] field = "hostname" -> JText(c.hostname)
      [] field = "rtc_as_localtime" -> JText(BoolToString(c.rtc_as_localtime))
      [] field = "swapfile" -> JText("\"Disable\"")
      [] field = "target_partition" -> [tag |-> "partition", part |-> c.target_part]
      [] field = "efi_partition" -> [tag |-> "partition", part |-> c.efi_disk.v]

\* lines 522-530: pick the squashfs, or leave with "Squashfs has no entry!"
SelectSqfs ==
    /\ MainAt("set_config")
    /\ \E s \in SelectSquashfs(host, config.variant.squashfs) :
        IF s.some
        THEN sqfs' = s /\ idx' = 1 /\ Goto("push")
        ELSE Fail(Error("Squashfs has no entry!", JNull)) /\ UNCHANGED <<sqfs, idx>>
    /\ UNCHANGED <<host, inqVars, pushed, nOk, mainCall, calls, startOk, monVars, ctrlcVars,
                   procVars, lastReply, outside>>

\* the next SetConfig request; building the offline download value unwraps dir_name
PushIssue ==
    /\ MainAt("push")
    /\ LET field == Fields(config)[idx] IN
        IF field = "download" /\ config.offline_install /\ ~config.variant.dir_name.some
        THEN Panic("unwrap on None") /\ UNCHANGED <<mainCall, calls, pushed>>
        ELSE /\ mainCall' = "SetConfig"
             /\ calls' = Append(calls, ProxyMethod("SetConfig"))
             /\ pushed' = Append(pushed, [field |-> field,
                                          value |-> FieldValue(config, sqfs.v, field)])
             /\ UNCHANGED <<pc, mainResult, failure>>
    /\ UNCHANGED <<host, inqVars, sqfs, idx, nOk, startOk, monVars, ctrlcVars, procVars,
                   lastReply, outside>>

PushReturn ==
    /\ Awaiting("SetConfig")
    /\ \E reply \in Replies(DataOf("SetConfig")) :
        /\ lastReply' = reply
        /\ LET res == run("SetConfig", reply) IN
           IF Propagates(res) THEN Fail(res.err) /\ UNCHANGED <<idx, nOk>>
           ELSE /\ nOk' = nOk + (IF res.ok THEN 1 ELSE 0)
                /\ idx' = idx + 1
                /\ Goto(IF idx = Len(Fields(config)) THEN "start_install" ELSE "push")
    /\ mainCall' = "none"
    /\ UNCHANGED <<host, inqVars, sqfs, pushed, calls, startOk, monVars, ctrlcVars, procVars,
                   outside>>

----------------------------------------------------------------------------
\* main, line 242, and get_progress

StartReturn ==
    /\ Awaiting("StartInstall")
    /\ \E reply \in Replies(DataOf("StartInstall")) :
        /\ lastReply' = reply
        /\ LET res == run("StartInstall", reply) IN
           IF Propagates(res) THEN Fail(res.err) /\ UNCHANGED startOk
           ELSE startOk' = res.ok /\ Goto("get_progress")
    /\ mainCall' = "none"
    /\ UNCHANGED <<host, inqVars, cfgVars, calls, monVars, ctrlcVars, procVars, outside>>

\* the arm of `match data` a ProgressStatus takes
FinishPollsOn(st) ==
    CASE st.status = "Working" -> "update"
      [] st.status = "Pending" -> "continue"
      [] st.status = "Error" -> "bail"
      [] st.status = "Finish" -> "continue"
ErrorPollsOn(st) ==
    CASE st.status = "Working" -> "update"
      [] st.status = "Pending" -> "continue"
      [] st.status = "Error" -> "continue"
      [] st.status = "Finish" -> "return"
ErrorReturnsOk(st) ==
    CASE st.status = "Working" -> "update"
      [] st.status = "Pending" -> "continue"
      [] st.status = "Error" -> "return"
      [] st.status = "Finish" -> "return"
MatchArm(st) ==
    CASE st.status = "Working" -> "update"
      [] st.status = "Pending" -> "continue"
      [] st.status = "Error" -> "bail"
      [] st.status = "Finish" -> "return"

\* what set_position stores for a u8 cast to u64
KeepsHighest(old, v) == IF v < old THEN old ELSE v
set_position(old, v) == v

\* where an arm leaves the loop body: `continue` skips the sleep at its foot
SleepsAlways(arm) == "sleep"
AfterArm(arm) == IF arm = "continue" THEN "get_progress" ELSE "sleep"

PollReturn ==
    /\ Awaiting("GetProgress")
    /\ \E reply \in Replies(DataOf("GetProgress")) :
        /\ lastReply' = reply
        /\ LET res == run("GetProgress", reply) IN
           IF Propagates(res) THEN Fail(res.err) /\ UNCHANGED monVars
           ELSE IF ~ProgressDecodes(res.data)
           THEN Fail(Error("serde_json::Error", res.data)) /\ UNCHANGED monVars
           ELSE LET st == ProgressOf(res.data)
                    arm == MatchArm(st) IN
                /\ observed' = Record(observed, st)
                /\ slept' = slept
                /\ IF arm = "update"
                   THEN /\ main_pb' = set_position(main_pb, st.step)
                        /\ second_pb' = set_position(second_pb, st.progress)
                        /\ updates' = Record(updates, <<main_pb', second_pb'>>)
                        /\ Goto(AfterArm(arm))
                   ELSE /\ UNCHANGED <<main_pb, second_pb, updates>>
                        /\ IF arm = "continue" THEN Goto(AfterArm(arm))
                           ELSE IF arm = "bail" THEN Fail(Error("", st.payload))
                           ELSE pc' = "returned" /\ mainResult' = "Ok" /\ failure' = NoError
    /\ mainCall' = "none"
    /\ UNCHANGED <<host, inqVars, cfgVars, calls, startOk, ctrlcVars, procVars, outside>>

\* sleep(Duration::from_micros(100)) at the foot of the loop
Sleep ==
    /\ MainAt("sleep")
    /\ slept' = Tick(slept)
    /\ Goto("get_progress")
    /\ UNCHANGED <<host, inqVars, cfgVars, mainCall, calls, startOk, observed, updates,
                   main_pb, second_pb, ctrlcVars, procVars, lastReply, outside>>

\* main has returned (or panicked): the process ends with the matching code
MainExit ==
    /\ Running /\ mainResult # "none"
    /\ proc' = "exited"
    /\ exitCode' = (CASE mainResult = "Ok" -> ExitOk
                      [] mainResult = "Err" -> ExitErr
                      [] mainResult = "panic" -> ExitPanic)
    /\ UNCHANGED <<pc, mainResult, failure, mainCall, host, inqVars, cfgVars, calls, startOk,
                   monVars, ctrlcVars, lastReply, outside>>

----------------------------------------------------------------------------
\* The ctrlc thread: it waits for SIGINT, then runs the closure of lines 228-237.

mainVars == <<pc, mainResult, failure, mainCall, host, inqVars, cfgVars, calls, startOk,
              monVars, lastReply>>

CtrlC ==
    /\ Running /\ hpc = "idle"
    /\ hpc' = "signalled"
    /\ UNCHANGED <<mainVars, cancels, procVars, outside>>

\* a second runtime is built (unwrap) and the CancelInstall request is sent
HandlerCancelIssue ==
    /\ Running /\ hpc = "signalled"
    /\ \/ hpc' = "calling" /\ cancels' = cancels + 1
       \/ hpc' = "panicked" /\ UNCHANGED cancels
    /\ UNCHANGED <<mainVars, procVars, outside>>

\* Result::unwrap on the handler's Dbus::run: does it panic
UnwrapPanics(res) == ~res.ok

\* the answer arrives: unwrap, then exit(1); a panic ends the ctrlc thread only
HandlerCancelReturn ==
    /\ Running /\ hpc = "calling"
    /\ \E reply \in Replies(DataOf("CancelInstall")) :
        LET res == run("CancelInstall", reply) IN
        IF UnwrapPanics(res)
        THEN hpc' = "panicked" /\ UNCHANGED procVars
        ELSE hpc' = "exited" /\ proc' = "exited" /\ exitCode' = HandlerExit
    /\ UNCHANGED <<mainVars, cancels, outside>>

----------------------------------------------------------------------------
\* Specifications.

Init == SessionInit /\ AssetIdle /\ AdapterIdle

Next ==
    \/ AskOffline \/ GetRecipe \/ SelectVariant \/ IssueCall \/ DevicesReturn
    \/ SelectDevice \/ PartitionsReturn \/ IsEfiReturn \/ IsLvmReturn \/ SelectPartition
    \/ EspReturn \/ SelectEsp \/ AskUser \/ SelectSqfs \/ PushIssue \/ PushReturn
    \/ StartReturn \/ PollReturn \/ Sleep \/ MainExit
    \/ CtrlC \/ HandlerCancelIssue \/ HandlerCancelReturn

Spec == Init /\ [][Next]_vars

\* the asset selection applied to every short list on every host
AssetNext == SelectAsset /\ UNCHANGED <<sessionVars, adapterVars>>
InitAsset == AssetInit /\ SessionIdle /\ AdapterIdle
SpecAsset == InitAsset /\ [][AssetNext]_vars

\* Dbus::run applied to every method and every reply
AdapterNext == AdapterRun /\ UNCHANGED <<sessionVars, assetVars>>
InitAdapter == AdapterInit /\ SessionIdle /\ AssetIdle
SpecAdapter == InitAdapter /\ [][AdapterNext]_vars

\* get_progress from its entry on, without the handler: a session that pushed
\* the configuration of a network install of "Base" to /dev/sda1 and whose
\* start_install came back Ok. The loop has no bound here: the histories keep
\* their latest entry only.
MonitorLocals ==
    [NoLocals EXCEPT !.variant = FindVariant(Recipe.variants, "Base"),
                     !.partition = Sda1]

MonitorStart ==
    /\ pc = "get_progress"
    /\ host \in SessionHosts
    /\ loc = NoLocals
    /\ \E rtc \in BOOLEAN : config = InstallConfig(MonitorLocals, rtc)
    /\ sqfs \in SelectSquashfs(host, config.variant.squashfs)
    /\ idx = Len(Fields(config)) + 1
    /\ mainCall = "none"
    /\ calls = <<"start_install">>
    /\ pushed = [i \in 1..Len(Fields(config)) |->
                    [field |-> Fields(config)[i],
                     value |-> FieldValue(config, sqfs.v, Fields(config)[i])]]
    /\ nOk = Len(Fields(config))
    /\ startOk = TRUE
    /\ observed = <<>>
    /\ updates = <<>>
    /\ main_pb = 0
    /\ second_pb = 0
    /\ slept = 0
    /\ lastReply \in {Envelope("Ok", d) : d \in DataOf("StartInstall")}
    /\ history = "latest"
    /\ mainResult = "none"
    /\ failure = NoError
    /\ hpc = "idle"
    /\ cancels = 0
    /\ proc = "running"
    /\ exitCode = 0

InitMonitor == MonitorStart /\ AssetIdle /\ AdapterIdle
MonitorNext == IssueCall \/ PollReturn \/ Sleep \/ MainExit

\* block_on drives the main thread's future, so a step of the thread that stays
\* possible is taken; the daemon answers every request it was sent
SpecMonitor ==
    /\ InitMonitor
    /\ [][MonitorNext]_vars
    /\ WF_vars(IssueCall)
    /\ WF_vars(PollReturn)
    /\ WF_vars(Sleep)
    /\ WF_vars(MainExit)

----------------------------------------------------------------------------
\* Properties.

Last(seq) == seq[Len(seq)]
Terminal(st) == st.status \in {"Finish", "Error"}
Polls(log) == Count(log, "get_progress")

\* C1: once get_progress has observed Finish or Error, the main thread sends
\* no further get_progress request, whatever the daemon would answer.
C1_StopsAtFirstTerminal ==
    [][(observed # <<>> /\ Terminal(Last(observed))) => Polls(calls') = Polls(calls)]_vars

\* a session that saw Pending and then Error, with requests to spare, and ended
C1_Witness ==
    /\ Len(observed) = 2
    /\ observed[1].status = "Pending"
    /\ observed[2].status = "Error"
    /\ Polls(calls) = 2
    /\ proc = "exited"

\* C2: for every method, a reply that is an envelope with result Error makes
\* Dbus::run fail with an error carrying the envelope's data, and every envelope
\* Dbus::run returns has result Ok.
C2_ErrorEnvelopeFails ==
    adPc = "returned" =>
        /\ (adReply.kind = "envelope" /\ adReply.result = "Error") =>
                (~adOut.ok /\ adOut.err = Error("Failed to execute query", adReply.data))
        /\ adOut.ok => (adReply.kind = "envelope" /\ adReply.result = "Ok" /\ adOut.result = "Ok"
                        /\ adOut.data = adReply.data)

C2_Witness ==
    /\ adPc = "returned"
    /\ adMethod = "GetProgress"
    /\ adWire = "get_progress"
    /\ adReply = Envelope("Error", JStatus("Finish", 0, 0, JNull))
    /\ ~adOut.ok

\* the fixed sequence of the configuration push
PushOrder == <<"download", "locale", "user", "timezone", "hostname", "rtc_as_localtime",
               "swapfile", "target_partition", "efi_partition">>
PushedFields == [i \in 1..Len(pushed) |-> pushed[i].field]
IsPrefix(a, b) == Len(a) <= Len(b) /\ \A i \in 1..Len(a) : a[i] = b[i]
\* set_config has returned Ok
SetConfigDone == pc \in {"start_install", "get_progress", "sleep"} \/ Count(calls, "start_install") > 0

\* C3: the set_config requests of a session are a prefix of the fixed sequence,
\* each sent only after all earlier ones returned Ok, whatever the configuration;
\* efi_partition is sent only when the configuration holds an EFI partition, and
\* a push that ran to its end sent it exactly when the configuration holds one.
C3_FixedPushOrder ==
    /\ IsPrefix(PushedFields, PushOrder)
    /\ Len(pushed) - 1 <= nOk /\ nOk <= Len(pushed)
    /\ (Len(pushed) = Len(PushOrder)) => config.efi_disk.some
    /\ SetConfigDone =>
        /\ nOk = Len(pushed)
        /\ Len(pushed) = (IF config.efi_disk.some THEN Len(PushOrder) ELSE Len(PushOrder) - 1)

\* a push that ran to its end on a configuration with an EFI partition
C3_Witness ==
    /\ SetConfigDone
    /\ config.efi_disk.some
    /\ PushedFields = PushOrder
    /\ config.offline_install

\* C4: main's steps run strictly in order, each only if the previous one
\* succeeded: start_install is sent only after every set_config of the session
\* returned Ok, get_progress only after start_install returned Ok, a set_config
\* or start_install that does not return Ok makes main return an error, and once
\* main has returned the main thread sends no daemon request.
C4_StepsInOrder ==
    [][/\ (calls' # calls /\ Last(calls') = "start_install") =>
              (nOk = Len(pushed) /\ Len(pushed) >= Len(PushOrder) - 1
               /\ Count(calls, "start_install") = 0 /\ Polls(calls) = 0)
       /\ (calls' # calls /\ Last(calls') = "get_progress") =>
              (startOk /\ Count(calls, "start_install") = 1)
       /\ (calls' # calls /\ Last(calls') = "set_config") =>
              (Count(calls, "start_install") = 0 /\ Polls(calls) = 0)
       /\ (mainCall = "SetConfig" /\ mainCall' = "none" /\ nOk' = nOk) => mainResult' = "Err"
       /\ (mainCall = "StartInstall" /\ mainCall' = "none" /\ ~startOk') => mainResult' = "Err"
       /\ mainResult # "none" => (calls' = calls /\ mainResult' = mainResult)
      ]_vars

\* a session whose fourth set_config failed: main returned the error and the
\* process ended with neither start_install nor get_progress sent
C4_Witness ==
    /\ Len(pushed) = 4
    /\ nOk = 3
    /\ mainResult = "Err"
    /\ failure.kind = "Failed to execute query"
    /\ Count(calls, "start_install") = 0
    /\ Polls(calls) = 0
    /\ proc = "exited"
    /\ exitCode = ExitErr

\* lexicographic order on strings, stated position by position: a is a prefix
\* of b, or at the first position where they differ a holds the smaller character
LexLeq(a, b) ==
    \/ IsPrefix(a, b)
    \/ \E k \in 1..Len(a) :
        /\ k <= Len(b)
        /\ \A i \in 1..(k - 1) : a[i] = b[i]
        /\ a[k] < b[k]
\* the same on build tags, an absent tag being below every tag
TagLeq(a, b) == ~a.some \/ (b.some /\ LexLeq(a.v, b.v))

\* the squashfs entries of the list whose arch is the host's architecture name
OfHostArch(h, list) ==
    {i \in 1..Len(list) : get_arch_name(h).some /\ list[i].arch = get_arch_name(h).v}

\* C5: for every squashfs list and host, the selection yields an entry of the
\* list whose arch is the host's architecture name and whose data is the
\* lexicographically greatest among the entries of that arch, and it fails
\* exactly when the list has no entry of that arch (as on a host whose
\* architecture has no name).
C5_GreatestTagOfArch ==
    asPc = "selected" =>
        /\ ~asOut.some <=> OfHostArch(asHost, asList) = {}
        /\ asOut.some =>
            /\ \E i \in OfHostArch(asHost, asList) : asList[i] = asOut.v
            /\ \A i \in OfHostArch(asHost, asList) : TagLeq(asList[i].data, asOut.v.data)

\* arm64 tags 20240101 and 20240202 plus amd64 20240303 on an arm64 host: 20240202
C5_Witness ==
    /\ asPc = "selected"
    /\ asHost.arch = "aarch64"
    /\ asList = <<Asset("arm64", SomeTag(T0101)), Asset("arm64", SomeTag(T0202)),
                  Asset("amd64", SomeTag(T0303))>>
    /\ asOut = SomeAsset(Asset("arm64", SomeTag(T0202)))

\* the handler has sent cancel_install and has its answer
CancelAnswered == cancels > 0 /\ hpc # "calling"

\* C6: after SIGINT the handler sends cancel_install, waits for the answer and
\* then ends the process with a non-zero exit code; it does not end the process
\* before cancel_install was sent.
C6_CancelThenExitNonZero ==
    /\ hpc = "exited" => cancels > 0
    /\ CancelAnswered => (proc = "exited" /\ exitCode # 0)

\* daemon calls sent and not yet answered
Outstanding == (IF mainCall # "none" THEN 1 ELSE 0) + (IF hpc = "calling" THEN 1 ELSE 0)

\* C7: at most one daemon call is outstanding in every reachable state.
C7_OneCallOutstanding == Outstanding <= 1

\* C8: once the handler has sent cancel_install, the main thread sends no
\* further daemon request (no set_config, start_install or get_progress).
C8_NoCallAfterCancel == [][cancels > 0 => calls' = calls]_vars

IsWorking(st) == st.status = "Working"
\* the (step, progress) pairs of the Working observations, in order
WorkingPairs(obs) ==
    LET w == SelectSeq(obs, IsWorking)
    IN [i \in 1..Len(w) |-> <<w[i].step, w[i].progress>>]

\* C9: the bars are written once per Working observation, with exactly the step
\* and progress the daemon reported (also when step goes down), never for a
\* Pending observation, and a Finish observation makes get_progress return Ok.
C9_ForwardsWorking ==
    /\ updates = WorkingPairs(observed)
    /\ updates # <<>> => (main_pb = Last(updates)[1] /\ second_pb = Last(updates)[2])
    /\ updates = <<>> => (main_pb = 0 /\ second_pb = 0)
    /\ (observed # <<>> /\ Last(observed).status = "Finish") => mainResult = "Ok"

\* Pending, Pending, Working(1,50), Working(2,80), Finish: two updates, then Ok
C9_Witness ==
    /\ Len(observed) = 5
    /\ observed[1].status = "Pending"
    /\ observed[2].status = "Pending"
    /\ observed[3] = ProgressStatus("Working", 1, 50, JNull)
    /\ observed[4] = ProgressStatus("Working", 2, 80, JNull)
    /\ observed[5].status = "Finish"
    /\ updates = <<(<<1, 50>>), (<<2, 80>>)>>
    /\ mainResult = "Ok"

\* positions of the terminal observations
TerminalAt == {i \in 1..Len(observed) : Terminal(observed[i])}
FirstTerminal == CHOOSE i \in TerminalAt : \A j \in TerminalAt : i <= j

\* C10: an Error observation makes main return an error that is the observed
\* payload, and never Ok; main returns Ok exactly when the first terminal
\* observation is Finish.
C10_ErrorFailsSession ==
    /\ \A i \in TerminalAt : observed[i].status = "Error" =>
            (mainResult = "Err" /\ failure = Error("", observed[i].payload))
    /\ mainResult = "Ok" <=> (TerminalAt # {} /\ observed[FirstTerminal].status = "Finish")

\* Working, then Error("no space"): main returned that payload, the process exit code 1
C10_Witness ==
    /\ Len(observed) = 2
    /\ observed[1].status = "Working"
    /\ observed[2] = ProgressStatus("Error", 0, 0, JText("no space"))
    /\ mainResult = "Err"
    /\ failure.payload = JText("no space")
    /\ proc = "exited"
    /\ exitCode = ExitErr

\* the main thread's last finished call was `wire`, answered Ok with `data`
Answered(wire, data) ==
    /\ mainCall = "none"
    /\ calls # <<>>
    /\ Last(calls) = wire
    /\ lastReply = Envelope("Ok", data)

\* the queries every session issues before the partition prompt
GatherCalls == <<"get_list_devices", "get_list_partitions", "is_efi", "is_lvm_device">>
NoEspError == "No ESP partition found on device"

\* C11: on an EFI host, an empty answer to get_all_esp_partitions makes the
\* session fail with "No ESP partition found on device", with no set_config and
\* no start_install sent; and a set_config is sent only after inquire returned a
\* configuration, that is after the four gathering queries, and on an EFI host
\* the ESP query, were sent and answered Ok.
C11_NoEspFailsBeforePush ==
    /\ (loc.is_efi /\ Answered("get_all_esp_partitions", JParts(<<>>))) =>
            (mainResult = "Err" /\ failure.kind = NoEspError)
    /\ failure.kind = NoEspError =>
            /\ loc.is_efi
            /\ Last(calls) = "get_all_esp_partitions"
            /\ Count(calls, "set_config") = 0
            /\ Count(calls, "start_install") = 0
            /\ pushed = <<>>
    /\ Count(calls, "set_config") > 0 =>
            /\ config # NoConfig
            /\ IsPrefix(GatherCalls, calls)
            /\ calls[Len(GatherCalls) + 1] =
                    (IF config.efi_disk.some THEN "get_all_esp_partitions" ELSE "set_config")

\* an EFI host whose ESP list came back empty: main returned the error, exit code 1
C11_Witness ==
    /\ loc.is_efi
    /\ Answered("get_all_esp_partitions", JParts(<<>>))
    /\ failure.kind = NoEspError
    /\ calls = Append(GatherCalls, "get_all_esp_partitions")
    /\ proc = "exited"
    /\ exitCode = ExitErr

LvmError == "Installer unsupport LVM Device."

\* C12 as stated: when is_lvm_device answers true the session fails with the
\* LVM error, and between the device selection and that failure nothing but the
\* is_lvm_device query takes place: no partition listing, no EFI query, no
\* partition prompt, no set_config, no start_install.
C12_LvmFailsRightAfterDevice ==
    /\ Answered("is_lvm_device", JBool(TRUE)) => failure.kind = LvmError
    /\ failure.kind = LvmError =>
            /\ calls = <<"get_list_devices", "is_lvm_device">>
            /\ loc.partition = PartNoPath
            /\ pushed = <<>>

\* C12, amended: when is_lvm_device answers true the session fails with the LVM
\* error before the partition prompt, the ESP query, set_config and
\* start_install; the partition listing and the EFI query are sent and answered
\* between the device selection and the is_lvm_device query, in that order.
C12_LvmFailsBeforePartitionPrompt ==
    /\ Answered("is_lvm_device", JBool(TRUE)) => (mainResult = "Err" /\ failure.kind = LvmError)
    /\ failure.kind = LvmError =>
            /\ calls = GatherCalls
            /\ loc.device \in Range(loc.devices)
            /\ loc.partition = PartNoPath
            /\ loc.efi_parts = <<>>
            /\ pushed = <<>>
    /\ Count(calls, "is_lvm_device") > 0 => IsPrefix(GatherCalls, calls)

\* /dev/sda listed with two partitions on an EFI host, then reported as LVM
C12_Witness ==
    /\ failure.kind = LvmError
    /\ Answered("is_lvm_device", JBool(TRUE))
    /\ loc.device = "/dev/sda"
    /\ loc.partitions = <<Sda1, Sda2>>
    /\ loc.is_efi
    /\ proc = "exited"
    /\ exitCode = ExitErr

\* set_config stands at, or has ended at, the download field of an offline
\* configuration whose variant has no directory name
OfflineWithoutDir ==
    /\ config.offline_install
    /\ ~config.variant.dir_name.some
    /\ sqfs.some

\* C13: offline mode with a variant that has no directory name makes the push
\* end as every other failure of the session does, with main returning an error
\* (exit code 1), and no set_config request for the download field is sent.
C13_NoDirNameReturnsError ==
    /\ (OfflineWithoutDir /\ pc = "returned") => mainResult = "Err"
    /\ (OfflineWithoutDir /\ proc = "exited" /\ hpc # "exited") => exitCode = ExitErr
    /\ OfflineWithoutDir => pushed = <<>>

\* the main thread's last finished call came back as an Ok envelope
LastCallOk == lastReply.kind = "envelope" /\ lastReply.result = "Ok"

\* C14: no retry. Every call of the main thread sends exactly one request; a
\* request is sent only when every earlier call came back Ok, so a failed call
\* is never sent again; every method other than set_config and get_progress is
\* requested at most once, every configuration field is pushed at most once,
\* and the handler sends cancel_install at most once.
C14_NoRetry ==
    [][/\ (calls' # calls) <=> (mainCall = "none" /\ mainCall' # "none")
       /\ (calls' # calls) =>
            /\ Len(calls') = Len(calls) + 1
            /\ SubSeq(calls', 1, Len(calls)) = calls
            /\ mainResult = "none"
            /\ calls # <<>> => LastCallOk
            /\ Last(calls') \notin {"set_config", "get_progress"} => Count(calls, Last(calls')) = 0
       /\ (pushed' # pushed) =>
            /\ Len(pushed') = Len(pushed) + 1
            /\ Last(calls') = "set_config"
            /\ Last(pushed').field \notin Range(PushedFields)
       /\ (Count(calls', "set_config") = Len(pushed') /\ cancels' <= 1)
      ]_vars

\* the third set_config was answered with an Error envelope: three set_config
\* requests in all, and the session ended
C14_Witness ==
    /\ Len(pushed) = 3
    /\ Count(calls, "set_config") = 3
    /\ Last(calls) = "set_config"
    /\ lastReply = Envelope("Error", JText("rejected"))
    /\ mainResult = "Err"
    /\ proc = "exited"

\* how many Working observations the loop has made
WorkingSeen == Len(SelectSeq(observed, IsWorking))

\* C15: the loop sleeps exactly once after every Working observation and not at
\* all after a Pending one (the next get_progress follows at once), and every
\* observation is the answer of a get_progress request of its own.
C15_DelayOnlyAfterWorking ==
    /\ slept = WorkingSeen - (IF pc = "sleep" THEN 1 ELSE 0)
    /\ pc = "sleep" => (observed # <<>> /\ Last(observed).status = "Working")
    /\ (pc = "get_progress" /\ observed # <<>> /\ Last(observed).status = "Pending") =>
            slept = WorkingSeen
    /\ Polls(calls) - Len(observed) \in {0, 1}
    /\ (pc \in {"get_progress", "sleep"} /\ mainCall = "none") => Polls(calls) = Len(observed)
    /\ mainCall = "GetProgress" => Polls(calls) = Len(observed) + 1

\* Pending, Working, Pending, then a fourth request in flight after one sleep
C15_Witness ==
    /\ Len(observed) = 3
    /\ observed[1].status = "Pending"
    /\ observed[2].status = "Working"
    /\ observed[3].status = "Pending"
    /\ slept = 1
    /\ Polls(calls) = 4
    /\ mainCall = "GetProgress"

\* the set_config requests of the session that carry the download field
DownloadPushes == SelectSeq(pushed, LAMBDA p : p.field = "download")

\* C16: a push sends the download field exactly once, as its first request.
\* Network mode: {"Http": {url, hash}} with url the release base followed by the
\* selected asset's path and hash the asset's sha256sum. Offline mode:
\* {"Dir": path} with path the sysroot mount point followed by the variant's
\* directory name, the same whatever asset was selected.
C16_DownloadDescriptor ==
    /\ Len(DownloadPushes) <= 1
    /\ pushed # <<>> =>
        /\ pushed[1].field = "download"
        /\ sqfs.some
        /\ ~config.offline_install =>
                pushed[1].value = [tag |-> "Http",
                                   url |-> <<"https://releases.aosc.io/", sqfs.v.path>>,
                                   hash |-> sqfs.v.sha256sum]
        /\ config.offline_install =>
                /\ config.variant.dir_name.some
                /\ pushed[1].value = [tag |-> "Dir",
                                      dir |-> <<"/run/livekit/sysroots/",
                                                config.variant.dir_name.v>>]
    /\ SetConfigDone => Len(DownloadPushes) = 1

\* a network push of "Base" that ran to its end: the newest amd64 image and its sum
C16_Witness ==
    /\ SetConfigDone
    /\ ~config.offline_install
    /\ config.variant.name = "Base"
    /\ pushed[1].value.url = <<"https://releases.aosc.io/", "base-0202.squashfs">>
    /\ pushed[1].value.hash = "sum-0202"

\* the answer the main thread just got to a get_progress request
PollAnswered == mainCall = "none" /\ Last(calls) = "get_progress"
\* ... was an Ok envelope holding one of these statuses
AnswerIn(statuses) ==
    /\ PollAnswered
    /\ LastCallOk
    /\ lastReply.data.tag = "status"
    /\ lastReply.data.status \in statuses
    /\ lastReply.data.status = "Working" =>
            (lastReply.data.step <= U8Max /\ lastReply.data.progress <= U8Max)
MonitorEnded == mainResult # "none"

\* C17: with no interrupt, a main thread that keeps running and a daemon that
\* answers every request: once get_progress is answered Finish or Error the
\* monitor has ended; and as long as every answer is Pending or Working the
\* monitor never ends, there being no timeout and no limit on the polls.
C17_EndsOnlyOnTerminalAnswer ==
    /\ AnswerIn({"Finish", "Error"}) ~> MonitorEnded
    /\ [](PollAnswered => AnswerIn({"Pending", "Working"})) => []~MonitorEnded

\* the loop went through Working(2,80), slept, and ended on Finish
C17_Witness ==
    /\ history = "latest"
    /\ AnswerIn({"Finish"})
    /\ mainResult = "Ok"
    /\ main_pb = 2
    /\ second_pb = 80
    /\ slept = 1
    /\ proc = "exited"
    /\ exitCode = ExitOk

\* C18: once the handler's cancel_install has been answered, whether Ok or with
\* a failure, the process has ended with a non-zero exit code, and the main
\* thread takes no further step.
C18_InterruptEndsProcess ==
    [][(cancels > 0 /\ hpc # "calling") =>
            /\ proc = "exited"
            /\ exitCode # 0
            /\ UNCHANGED mainVars
      ]_vars

\* C19: on an EFI host, whichever ESP of the non-empty list the user picks,
\* inquire goes on to the remaining prompts with that ESP as the EFI partition,
\* also when the ESP is not among the target device's partitions; and the
\* configuration inquire returns holds that ESP on an EFI host and no EFI
\* partition on any other host.
C19_SelectedEspIsConfigured ==
    [][/\ (pc = "select_esp" /\ pc' # pc /\ failure'.kind # "InquireError") =>
            /\ pc' = "ask_user"
            /\ loc'.efi.some
            /\ loc'.efi.v \in Range(loc.efi_parts)
       /\ (pc = "ask_user" /\ pc' = "set_config") =>
            /\ config'.efi_disk = loc.efi
            /\ config'.efi_disk.some <=> loc.is_efi
      ]_vars

NoEntryError == "Squashfs has no entry!"
\* inquire has returned a configuration
Configured == config # NoConfig

\* C20: set_config selects the asset before it sends anything, in both modes:
\* when the variant has no asset of the host's architecture the push fails with
\* "Squashfs has no entry!" and no set_config request, offline or not; and
\* every set_config request of a session follows a selection that found an
\* asset of the variant with the host's architecture name.
C20_AssetBeforeAnyPush ==
    /\ (Configured /\ pc # "set_config" /\ OfHostArch(host, config.variant.squashfs) = {}) =>
            /\ mainResult = "Err"
            /\ failure.kind = NoEntryError
    /\ failure.kind = NoEntryError =>
            /\ OfHostArch(host, config.variant.squashfs) = {}
            /\ Count(calls, "set_config") = 0
            /\ pushed = <<>>
            /\ ~sqfs.some
    /\ Count(calls, "set_config") > 0 =>
            /\ sqfs.some
            /\ \E i \in OfHostArch(host, config.variant.squashfs) :
                    config.variant.squashfs[i] = sqfs.v

\* an offline install of "Server", which has an arm64 image only, on x86_64
C20_Witness ==
    /\ config.offline_install
    /\ config.variant.name = "Server"
    /\ config.variant.dir_name.some
    /\ failure.kind = NoEntryError
    /\ calls = GatherCalls
    /\ proc = "exited"
    /\ exitCode = ExitErr

====
